---- MODULE Spec2Model ----
(***************************************************************************)
(* A model of two pieces of pippin:                                        *)
(*   - examples/sequences.rs: SeqRepo (the Partition Info table `parts`,   *)
(*     the classifier table `csf`, init_first, divide, write_buf,          *)
(*     read_buf) and SeqClassifier::classify;                              *)
(*   - src/detail/mod.rs: read::read_head, the header reader.              *)
(*                                                                         *)
(* A PartId is modelled by its partition number (PartId::from_num and      *)
(* into_num are inverse conversions), 0 standing for a 64-bit value that   *)
(* PartId::try_from rejects.  u32 values are scaled to U32Bits bits and    *)
(* PartId::max_num() to MaxPartNum, so that TLC can enumerate them.        *)
(***************************************************************************)
EXTENDS Integers, Sequences, FiniteSets, TLC

VARIABLES
    parts,      \* replica -> SeqRepo::parts, a map PartId -> PartInfo
    csf,        \* replica -> SeqRepo::csf.classes, a sequence of <<min_len, PartId>>
    alive,      \* replica -> FALSE once a panic has unwound the process
    checks,     \* the build: TRUE when integer overflow panics (debug), FALSE when it wraps
    divided,    \* history: replica -> the partitions on which divide has returned Ok there
    synced,     \* history: the replicas that have applied read_buf since the last init_first or divide
    last,       \* history: the last call, its inputs and its outcome
    input,      \* read_head: the bytes of the reader `r`
    pos,        \* read_head: the number of bytes consumed from `r`
    hpc,        \* read_head: position in the function
    repo_name,  \* read_head: the local repo_name
    hres,       \* read_head: the value returned ("" while running)
    origin      \* read_head history: how `input` was made

repoVars == <<parts, csf, alive, checks, divided, synced, last>>
headVars == <<input, pos, hpc, repo_name, hres, origin>>
vars == <<parts, csf, alive, checks, divided, synced, last,
          input, pos, hpc, repo_name, hres, origin>>

----------------------------------------------------------------------------
(* Bounds *)

MaxPartNum == 8      \* stands for PartId::max_num()
U32Bits == 11        \* width the u32 fields are scaled to
MaxLen == 1          \* element lengths of the small partition states are 0..MaxLen
MaxElts == 2         \* number of elements of the small partition states
MaxDivides == 2      \* successful divide calls in a run of the two replicas
MaxVer == 1          \* versions of the records of arbitrary buffers are 0..MaxVer
MaxRecs == 2         \* records in an arbitrary buffer

(* Program constants *)

SampleMax == 999

U32_MAX == 2^U32Bits - 1

Replicas == {"a", "b"}
Other(r) == IF r = "a" THEN "b" ELSE "a"

PartIds == 1..MaxPartNum
None == 0

Min(x, y) == IF x < y THEN x ELSE y

----------------------------------------------------------------------------
(* Maps (std::collections::HashMap) *)

EmptyMap == [k \in {} |-> 0]

Insert(m, k, v) == [x \in (DOMAIN m) \cup {k} |-> IF x = k THEN v ELSE m[x]]

\* the elements of S in ascending order
RECURSIVE Asc(_)
Asc(S) ==
    IF S = {} THEN << >>
    ELSE LET m == CHOOSE x \in S : \A y \in S : x <= y
         IN <<m>> \o Asc(S \ {m})

Rot(s, k) == SubSeq(s, k + 1, Len(s)) \o SubSeq(s, 1, k)

RECURSIVE Rev(_)
Rev(s) == IF s = << >> THEN << >> ELSE Append(Rev(Tail(s)), Head(s))

\* The orders in which `for (part_id, part) in &self.parts` may visit the
\* keys S.  The order of a HashMap is unspecified; the model takes the
\* rotations of the ascending and of the descending order.
IterOrders(S) ==
    LET asc == Asc(S)
        desc == Rev(asc)
    IN IF S = {} THEN {<< >>}
       ELSE {Rot(asc, k) : k \in 0..(Len(asc) - 1)}
            \cup {Rot(desc, k) : k \in 0..(Len(asc) - 1)}

----------------------------------------------------------------------------
(* u32 arithmetic *)

WrapU32(x) == x % (U32_MAX + 1)

Overflows(x) == x < 0 \/ x > U32_MAX

----------------------------------------------------------------------------
(* SeqRepo::set_classifier *)

PartInfo(max_part_id, ver, min_len, max_len) ==
    [max_part_id |-> max_part_id, ver |-> ver, min_len |-> min_len, max_len |-> max_len]

\* the test of line 96: the partition is in use
InUse(part) == part.max_len > part.min_len

\* classes.sort_by(|a, b| a.0.cmp(&b.0)): a stable sort on the first component
InsertBy0(sorted, x) ==
    LET k == Cardinality({i \in 1..Len(sorted) : sorted[i][1] <= x[1]})
    IN SubSeq(sorted, 1, k) \o <<x>> \o SubSeq(sorted, k + 1, Len(sorted))

RECURSIVE SortBy0(_)
SortBy0(s) ==
    IF s = << >> THEN << >>
    ELSE InsertBy0(SortBy0(SubSeq(s, 1, Len(s) - 1)), s[Len(s)])

\* the classes pushed by the loop of lines 95-99, visiting the keys in order ord
RECURSIVE PushClasses(_, _)
PushClasses(table, ord) ==
    IF ord = << >> THEN << >>
    ELSE LET part_id == ord[1]
             rest == PushClasses(table, Tail(ord))
         IN IF InUse(table[part_id])
            THEN <<<<table[part_id].min_len, part_id>>>> \o rest
            ELSE rest

set_classifier(table, ord) == SortBy0(PushClasses(table, ord))

\* the values set_classifier can leave in csf.classes, over the iteration orders
Classifiers(table) == {set_classifier(table, ord) : ord \in IterOrders(DOMAIN table)}

----------------------------------------------------------------------------
(* SeqClassifier::classify *)

\* slice::binary_search_by of the core library, on the comparison x.0.cmp(&len):
\* the result is <<"Ok", i>> or <<"Err", i>>, i a 0-based index
RECURSIVE binary_search_by(_, _, _, _)
binary_search_by(classes, len, base, lim) ==
    IF lim = 0 THEN <<"Err", base>>
    ELSE LET ix == base + (lim \div 2)
             x0 == classes[ix + 1][1]
         IN IF x0 = len THEN <<"Ok", ix>>
            ELSE IF x0 < len
                 THEN binary_search_by(classes, len, ix + 1, (lim - 1) \div 2)
                 ELSE binary_search_by(classes, len, base, lim \div 2)

\* a lookup that steps one class too far down when the key is not a lower bound
classify_low(classes, len) ==
    LET r == binary_search_by(classes, len, 0, Len(classes))
    IN IF r[1] = "Ok" THEN classes[r[2] + 1][2]
       ELSE IF r[2] = 0 THEN None
            ELSE classes[IF r[2] > 1 THEN r[2] - 1 ELSE 1][2]

classify(classes, len) ==
    LET r == binary_search_by(classes, len, 0, Len(classes))
    IN IF r[1] = "Ok" THEN classes[r[2] + 1][2]
       ELSE IF r[2] = 0 THEN None
            ELSE classes[r[2]][2]

----------------------------------------------------------------------------
(* SeqRepo::divide *)

\* lines 153-159: the lengths of the first 999 elements that elt_map() yields
Sample(lens) == SubSeq(lens, 1, Min(SampleMax, Len(lens)))

\* lens.sort(): the i-th element of the sorted vector is the value of rank i
Sort(s) ==
    [i \in 1..Len(s) |->
        CHOOSE v \in {s[j] : j \in 1..Len(s)} :
            /\ Cardinality({j \in 1..Len(s) : s[j] < v}) < i
            /\ i <= Cardinality({j \in 1..Len(s) : s[j] <= v})]

\* lines 161-162
MidPoint(n) == n \div 2

Median(lens) ==
    LET sample == Sample(lens)
    IN Sort(sample)[MidPoint(Len(sample)) + 1]

\* a check that lets a partition with one unused identifier through
NotEnoughNumbers_one(max_num, old_num) == max_num < old_num + 1

\* line 175
NotEnoughNumbers(max_num, old_num) == max_num < old_num + 2

\* lines 180-181
Num1(old_num) == old_num + 1
Num2(old_num, max_num) == Num1(old_num) + (max_num - old_num) \div 2

\* line 185 and line 192
NextVer(table, id) == IF id \in DOMAIN table THEN table[id].ver + 1 ELSE 0

\* a first Partition Info whose identifier interval reaches the second identifier
FirstInfo_over(num2, ver, min_len, median) == PartInfo(num2, ver, min_len, median - 1)

\* lines 186-191 and 193-198, the unchecked values of the fields
FirstInfo(num2, ver, min_len, median) == PartInfo(num2 - 1, ver, min_len, median - 1)
SecondInfo(max_num, ver, median, max_len) == PartInfo(max_num, ver, median, max_len)

\* a retirement that forgets to collapse the range
Retire_keep(pi, old_id) == PartInfo(old_id, pi.ver + 1, pi.min_len, pi.max_len)

\* a retirement that leaves the partition its assignable identifiers
Retire_open(pi, old_id) == PartInfo(pi.max_part_id, pi.ver + 1, pi.min_len, pi.min_len)

\* lines 200-202
Retire(pi, old_id) == PartInfo(old_id, pi.ver + 1, pi.min_len, pi.min_len)

Norm(pi) == PartInfo(pi.max_part_id, WrapU32(pi.ver), pi.min_len, WrapU32(pi.max_len))

\* an outcome whose error returns leave an emptied table behind
Ret_clear(kind, table, refresh, ids, median) ==
    [kind |-> kind,
     parts |-> IF kind \in {"NotSubdivisible", "missing info"} THEN EmptyMap ELSE table,
     refresh |-> refresh, ids |-> ids, median |-> median]

Ret(kind, table, refresh, ids, median) ==
    [kind |-> kind, parts |-> table, refresh |-> refresh, ids |-> ids, median |-> median]

\* The outcome of divide on the table, for a partition state with identifier
\* old_id and elements of lengths lens (in the order elt_map() yields them).
\* chk: overflow panics.  A panic leaves the table as it is at that point.
divide(table, old_id, lens, chk) ==
    IF Len(lens) < 1 THEN Ret("NotSubdivisible", table, FALSE, << >>, << >>)
    ELSE IF old_id \notin DOMAIN table THEN Ret("missing info", table, FALSE, << >>, << >>)
    ELSE LET old_num == old_id
             max_num == table[old_id].max_part_id
             min_len == table[old_id].min_len
             max_len == table[old_id].max_len
         IN IF NotEnoughNumbers(max_num, old_num)
            THEN Ret("NotSubdivisible", table, FALSE, << >>, << >>)
            ELSE LET median == Median(lens)
                     id1 == Num1(old_num)
                     id2 == Num2(old_num, max_num)
                     info1 == FirstInfo(id2, NextVer(table, id1), min_len, median)
                     t1 == Insert(table, id1, Norm(info1))
                     info2 == SecondInfo(max_num, NextVer(t1, id2), median, max_len)
                     t2 == Insert(t1, id2, Norm(info2))
                     info3 == Retire(t2[old_id], old_id)
                     t3p == [t2 EXCEPT ![old_id].max_part_id = old_id]
                     t3 == [t2 EXCEPT ![old_id] = Norm(info3)]
                 IN IF chk /\ (Overflows(info1.ver) \/ Overflows(info1.max_len))
                    THEN Ret("panic", table, FALSE, <<id1, id2>>, <<median>>)
                    ELSE IF chk /\ Overflows(info2.ver)
                    THEN Ret("panic", t1, FALSE, <<id1, id2>>, <<median>>)
                    ELSE IF chk /\ Overflows(info3.ver)
                    THEN Ret("panic", t3p, FALSE, <<id1, id2>>, <<median>>)
                    ELSE Ret("Ok", t3, TRUE, <<id1, id2>>, <<median>>)

----------------------------------------------------------------------------
(* SeqRepo::write_buf and SeqRepo::read_buf *)

\* A buffer of classifier data is modelled by its layout: len, its length in
\* bytes; tag, its first 8 bytes; n_parts, the u32 at offset 8; recs, the
\* 28-byte records that follow, decoded field by field.  In a record part_id
\* and max_part_id are partition numbers, 0 for a value PartId::try_from rejects.
Tag == "SeqCSF01"
HeadLen == 12
RecLen == 28

Rec(part_id, max_part_id, ver, min_len, max_len) ==
    [part_id |-> part_id, max_part_id |-> max_part_id, ver |-> ver,
     min_len |-> min_len, max_len |-> max_len]

Buf(tag, n_parts, recs) ==
    [len |-> HeadLen + RecLen * Len(recs), tag |-> tag, n_parts |-> n_parts, recs |-> recs]

\* lines 213-222, the keys of the map visited in the order ord
write_buf(table, ord) ==
    Buf(Tag, Cardinality(DOMAIN table),
        [i \in 1..Len(ord) |->
            Rec(ord[i], table[ord[i]].max_part_id, table[ord[i]].ver,
                table[ord[i]].min_len, table[ord[i]].max_len)])

\* a comparison that also lets a record of equal version through
IsNewer_eq(ver, stored) == ver >= stored

\* line 251
IsNewer(ver, stored) == ver > stored

\* lines 249-268: one record applied to the table
apply_record(table, rec) ==
    LET info == PartInfo(rec.max_part_id, rec.ver, rec.min_len, rec.max_len)
    IN IF rec.part_id \in DOMAIN table
       THEN IF IsNewer(rec.ver, table[rec.part_id].ver)
            THEN [table EXCEPT ![rec.part_id] = info]
            ELSE table
       ELSE Insert(table, rec.part_id, info)

ReadRet(kind, table, refresh, stale) ==
    [kind |-> kind, parts |-> table, refresh |-> refresh, stale |-> stale]

\* lines 240-269: the loop over the records i..n_parts of the buffer; stale
\* collects the identifiers for which a record was ignored as not newer
RECURSIVE read_records(_, _, _, _)
read_records(table, buf, i, stale) ==
    IF i > buf.n_parts THEN ReadRet("Ok", table, TRUE, stale)
    ELSE LET rec == buf.recs[i]
         IN IF rec.part_id = 0 \/ rec.max_part_id = 0
            THEN ReadRet("Invalid PartId", table, FALSE, stale)
            ELSE read_records(apply_record(table, rec), buf, i + 1,
                     IF /\ rec.part_id \in DOMAIN table
                        /\ ~IsNewer(rec.ver, table[rec.part_id].ver)
                     THEN stale \cup {rec.part_id} ELSE stale)

\* a length test that lets a buffer with bytes after its last record through
WrongLength_short(len, n_parts) == len < HeadLen + RecLen * n_parts

\* line 236
WrongLength(len, n_parts) == len # HeadLen + RecLen * n_parts

\* lines 229-271
read_buf(table, buf) ==
    IF buf.len < HeadLen THEN ReadRet("Insufficient data", table, FALSE, {})
    ELSE IF buf.tag # Tag THEN ReadRet("Invalid format identifier", table, FALSE, {})
    ELSE IF WrongLength(buf.len, buf.n_parts)
         THEN ReadRet("Wrong data length", table, FALSE, {})
    ELSE read_records(table, buf, 1, {})

----------------------------------------------------------------------------
(* History record of the last call *)

\* op, rep: the call and the replica; part: the identifier of the partition
\* state handed to divide; empty: that state had no element; pre: the
\* Partition Info of part before the call (<< >> when there is none);
\* stale: the identifiers for which read_buf ignored a record as not newer;
\* kind: the outcome; ids: the identifiers allocated by lines 180-182;
\* median, lens: the split point and the element lengths it was computed
\* from, recorded for the calls that got past the identifier check;
\* buf: the length, the tag and the record count of the buffer read_buf got.
NoBuf == [len |-> 0, tag |-> "", n_parts |-> 0]

BufHead(buf) == [len |-> buf.len, tag |-> buf.tag, n_parts |-> buf.n_parts]

NoCall ==
    [op |-> "none", rep |-> "a", part |-> 0, empty |-> FALSE, pre |-> << >>,
     kind |-> "", ids |-> << >>, median |-> << >>, lens |-> << >>,
     stale |-> {}, key |-> 0, ret |-> 0, buf |-> NoBuf]

\* the history record is kept by the specifications whose properties read it
Record(track, call) == IF track THEN call ELSE NoCall

InfoOf(table, id) == IF id \in DOMAIN table THEN <<table[id]>> ELSE << >>

----------------------------------------------------------------------------
(* Actions on a SeqRepo *)

\* SeqRepo::init_first (the I/O calls of lines 144-145 do not touch parts or csf)
InitFirst(r, track) ==
    /\ alive[r]
    /\ parts[r] = EmptyMap
    /\ LET t == Insert(EmptyMap, 1, PartInfo(MaxPartNum, 0, 0, U32_MAX))
       IN /\ parts' = [parts EXCEPT ![r] = t]
          /\ \E classes \in Classifiers(t) : csf' = [csf EXCEPT ![r] = classes]
    /\ last' = Record(track, [NoCall EXCEPT !.op = "init_first", !.rep = r, !.kind = "Ok"])
    /\ synced' = {}
    /\ UNCHANGED <<alive, checks, divided>>
    /\ UNCHANGED headVars

\* SeqRepo::divide on replica r, for the partition state (part_id, lens)
Divide(r, part_id, lens, track) ==
    /\ alive[r]
    /\ LET d == divide(parts[r], part_id, lens, checks)
       IN /\ parts' = [parts EXCEPT ![r] = d.parts]
          /\ \E classes \in (IF d.refresh THEN Classifiers(d.parts) ELSE {csf[r]}) :
                csf' = [csf EXCEPT ![r] = classes]
          /\ alive' = [alive EXCEPT ![r] = (d.kind # "panic")]
          /\ divided' = [divided EXCEPT ![r] =
                            IF d.kind = "Ok" THEN @ \cup {part_id} ELSE @]
          /\ synced' = IF d.kind = "Ok" THEN {} ELSE synced
          /\ last' = Record(track,
                         [NoCall EXCEPT !.op = "divide", !.rep = r, !.part = part_id,
                                        !.empty = (Len(lens) < 1),
                                        !.pre = InfoOf(parts[r], part_id),
                                        !.kind = d.kind, !.ids = d.ids, !.median = d.median,
                                        !.lens = IF d.median = << >> THEN << >> ELSE lens])
    /\ UNCHANGED checks
    /\ UNCHANGED headVars

\* the effect on replica r of a read_buf call of outcome d on a buffer of header head
ReadOutcome(r, d, track, head) ==
    /\ parts' = [parts EXCEPT ![r] = d.parts]
    /\ \E classes \in (IF d.refresh THEN Classifiers(d.parts) ELSE {csf[r]}) :
          csf' = [csf EXCEPT ![r] = classes]
    /\ synced' = IF d.kind = "Ok" THEN synced \cup {r} ELSE synced
    /\ last' = Record(track, [NoCall EXCEPT !.op = "read_buf", !.rep = r,
                                             !.kind = d.kind, !.stale = d.stale,
                                             !.buf = head])
    /\ UNCHANGED <<alive, checks, divided>>
    /\ UNCHANGED headVars

\* SeqRepo::read_buf on replica r
ReadBuf(r, buf, track) ==
    /\ alive[r]
    /\ ReadOutcome(r, read_buf(parts[r], buf), track, BufHead(buf))

\* the buffers write_buf can produce for a table
WriteBufs(table) == {write_buf(table, ord) : ord \in IterOrders(DOMAIN table)}

\* replica r reads the classifier data that the other replica writes
Sync(r) ==
    /\ alive[r]
    /\ alive[Other(r)]
    /\ \E d \in {read_buf(parts[r], buf) : buf \in WriteBufs(parts[Other(r)])} :
          ReadOutcome(r, d, FALSE, NoBuf)

----------------------------------------------------------------------------
(* Partition states handed to divide *)

RECURSIVE SeqsUpTo(_, _)
SeqsUpTo(S, n) ==
    IF n = 0 THEN {<< >>}
    ELSE LET shorter == SeqsUpTo(S, n - 1)
         IN shorter \cup {Append(s, x) : s \in {t \in shorter : Len(t) = n - 1}, x \in S}

\* the lengths of the elements of a small partition state, in elt_map() order
LenSeqs == SeqsUpTo(0..MaxLen, MaxElts)

----------------------------------------------------------------------------
(* Specifications *)

RepoInit ==
    /\ parts = [r \in Replicas |-> EmptyMap]
    /\ csf = [r \in Replicas |-> << >>]
    /\ alive = [r \in Replicas |-> TRUE]
    /\ checks \in BOOLEAN
    /\ divided = [r \in Replicas |-> {}]
    /\ synced = {}
    /\ last = NoCall

HeadIdle ==
    /\ input = << >>
    /\ pos = 0
    /\ hpc = "idle"
    /\ repo_name = << >>
    /\ hres = ""
    /\ origin = << >>

\* One repository: init_first, then divide calls only.
InitDivide == RepoInit /\ HeadIdle

\* divide is called with the partitions of the table and with one identifier
\* the table does not hold (the smallest one)
Absent(table) ==
    LET free == PartIds \ DOMAIN table
    IN  {p \in free : \A q \in free : p <= q}

DivideIds(table) == DOMAIN table \cup Absent(table)

DivideSmall ==
    \E part_id \in DivideIds(parts["a"]), lens \in LenSeqs : Divide("a", part_id, lens, TRUE)

NextDivide ==
    \/ InitFirst("a", TRUE)
    \/ DivideSmall

SpecDivide == InitDivide /\ [][NextDivide]_vars

\* Two replicas of one repository: each runs init_first and divide on its own
\* copy and reads the classifier data the other writes.
OneLens == {<< >>} \cup {<<m>> : m \in 0..MaxLen}

Divides == Cardinality(divided["a"]) + Cardinality(divided["b"])

DivideOne ==
    /\ Divides < MaxDivides
    /\ \E r \in Replicas :
           \E part_id \in DivideIds(parts[r]), lens \in OneLens : Divide(r, part_id, lens, FALSE)

Next ==
    \/ \E r \in Replicas : InitFirst(r, FALSE)
    \/ DivideOne
    \/ \E r \in Replicas : Sync(r)

Spec == InitDivide /\ [][Next]_vars

\* One repository that reads arbitrary buffers of classifier data.
ArbRecs ==
    {Rec(1, MaxPartNum, v, rg[1], rg[2]) : v \in 0..MaxVer, rg \in {<<0, U32_MAX>>, <<1, 1>>}}
    \cup {Rec(2, MaxPartNum, 0, 1, U32_MAX)}
    \cup {Rec(0, MaxPartNum, 0, 0, U32_MAX), Rec(1, 0, MaxVer, 0, U32_MAX)}

ArbBufs ==
    {Buf(Tag, Len(recs), recs) : recs \in SeqsUpTo(ArbRecs, MaxRecs)}
    \cup {[Buf(Tag, 0, << >>) EXCEPT !.len = 8],
          Buf("SeqCSF00", 0, << >>),
          Buf(Tag, 0, <<Rec(1, MaxPartNum, MaxVer, 0, U32_MAX)>>),
          Buf(Tag, 2, <<Rec(1, MaxPartNum, MaxVer, 0, U32_MAX)>>)}

ReadArb == \E buf \in ArbBufs : ReadBuf("a", buf, TRUE)

NextRead ==
    \/ InitFirst("a", TRUE)
    \/ ReadArb

SpecRead == InitDivide /\ [][NextRead]_vars

\* SeqClassifier::classify on the classifier of replica "a"
Classify(key) ==
    /\ last' = [NoCall EXCEPT !.op = "classify", !.key = key,
                              !.ret = classify(csf["a"], key)]
    /\ UNCHANGED <<parts, csf, alive, checks, divided, synced>>
    /\ UNCHANGED headVars

\* Classifier tables of up to MaxClasses classes with lower bounds 0..MaxBound:
\* the state of a repository that has read one record per partition.
MaxClasses == 4
MaxBound == 3

SortedBounds == {bs \in SeqsUpTo(0..MaxBound, MaxClasses) :
                    \A i \in 1..(Len(bs) - 1) : bs[i] <= bs[i + 1]}

InitClassify ==
    /\ \E bs \in SortedBounds : \E ord \in IterOrders(1..Len(bs)) :
          /\ parts = [r \in Replicas |->
                        IF r = "a"
                        THEN [id \in 1..Len(bs) |->
                                 PartInfo(MaxPartNum, 0,
                                          bs[CHOOSE i \in 1..Len(bs) : ord[i] = id], U32_MAX)]
                        ELSE EmptyMap]
          /\ csf = [r \in Replicas |->
                        IF r = "a" THEN [i \in 1..Len(bs) |-> <<bs[i], ord[i]>>] ELSE << >>]
    /\ alive = [r \in Replicas |-> TRUE]
    /\ checks = FALSE
    /\ divided = [r \in Replicas |-> {}]
    /\ synced = {}
    /\ last = NoCall
    /\ HeadIdle

NextClassify == \E key \in 0..(MaxBound + 1) : Classify(key)

SpecClassify == InitClassify /\ [][NextClassify]_vars

\* One repository that runs init_first and divide and reads buffers of one
\* record, whose version is the largest u32.
VerRecs == {Rec(id, MaxPartNum, U32_MAX, 0, U32_MAX) : id \in {1, 2}}

VerBufs == {Buf(Tag, 1, <<rec>>) : rec \in VerRecs}

ReadVer == \E buf \in VerBufs : ReadBuf("a", buf, TRUE)

\* divide is called while the versions that count up are at most MaxVer
SmallVersions(table) ==
    \A id \in DOMAIN table : table[id].ver <= MaxVer \/ table[id].ver = U32_MAX

DivideVer ==
    /\ Cardinality(divided["a"]) < MaxDivides
    /\ SmallVersions(parts["a"])
    /\ \E part_id \in DivideIds(parts["a"]), lens \in OneLens : Divide("a", part_id, lens, TRUE)

NextVersions ==
    \/ InitFirst("a", TRUE)
    \/ DivideVer
    \/ ReadVer

SpecVer == InitDivide /\ [][NextVersions]_vars

----------------------------------------------------------------------------
(* read::read_head *)

BlockLen == 16
SumLen == 32

Magic == <<80, 73, 80, 80, 73, 78, 83, 83, 50, 48, 49, 53, 48, 57, 50, 52>>      \* PIPPINSS20150924
Hsum == <<72, 83, 85, 77>>                                                       \* HSUM
Sha256 == <<32, 83, 72, 65, 45, 50, 32, 50, 53, 54, 32, 32>>                      \* " SHA-2 256  "
HsumSha256 == Hsum \o Sha256
HsumOther == <<72, 83, 85, 77, 32, 83, 72, 65, 45, 51, 32, 53, 49, 50, 32, 32>>  \* HSUM SHA-3 512
RepoName == <<115, 101, 113, 117, 101, 110, 99, 101, 115, 32, 100, 98, 0, 0, 0, 0>>
HBlock == <<72, 78, 79, 84, 69, 32, 115, 111, 109, 101, 32, 116, 101, 120, 116, 32>>
Q1Block == <<81, 49, 32, 115, 104, 111, 114, 116, 32, 114, 101, 99, 111, 114, 100, 32>>
Q2Block == <<81, 50, 32, 108, 111, 110, 103, 32, 114, 101, 99, 111, 114, 100, 32, 32>>
PayloadText == <<112, 97, 121, 108, 111, 97, 100, 45, 112, 97, 121, 108, 111, 97, 100, 45>>

\* the io::Error messages and the success value
Corrupt == "corrupt (file terminates unexpectedly)"
NotPippin == "not a known Pippin file format"
UnknownSum == "unknown checksum format"
BadQLength == "header section Qx... has invalid length specification 'x'"
Unexpected == "unexpected header contents"
Ok == "Ok"

\* fill (lines 67-75) on the reader inp at offset p, for a buffer of n bytes:
\* it takes n bytes, or runs into the end of the input
fill(inp, p, n) ==
    IF Len(inp) - p >= n
    THEN [ok |-> TRUE, buf |-> SubSeq(inp, p + 1, p + n), pos |-> p + n]
    ELSE [ok |-> FALSE, buf |-> << >>, pos |-> Len(inp)]

\* lines 46-50: the length code of a Q section, -1 when it is invalid
QLen(c) ==
    IF c \in 48..57 THEN c - 48
    ELSE IF c \in 65..90 THEN c + 10 - 65
    ELSE -1

\* lines 51-53: the length of qbuf when fill is called on qbuf[16..]:
\* reserve_exact(16 * x) leaves the vector empty, extend(&buf) appends 16 bytes
QbufLen(x) == BlockLen

\* a test that takes any algorithm name of an HSUM section
KnownSum_any(buf) == Len(buf) = BlockLen

\* lines 38-41: the HSUM section names the one supported algorithm
KnownSum(buf) == SubSeq(buf, 5, BlockLen) = Sha256

Return(e) ==
    /\ hpc' = "done"
    /\ hres' = e

\* lines 25-29
ReadMagic ==
    /\ hpc = "magic"
    /\ LET f == fill(input, pos, BlockLen)
       IN /\ pos' = f.pos
          /\ IF ~f.ok THEN Return(Corrupt)
             ELSE IF f.buf # Magic THEN Return(NotPippin)
             ELSE hpc' = "name" /\ hres' = hres
    /\ UNCHANGED <<input, repo_name, origin>>
    /\ UNCHANGED repoVars

\* lines 31-32
ReadName ==
    /\ hpc = "name"
    /\ LET f == fill(input, pos, BlockLen)
       IN /\ pos' = f.pos
          /\ IF ~f.ok THEN Return(Corrupt) /\ repo_name' = repo_name
             ELSE hpc' = "loop" /\ hres' = hres /\ repo_name' = f.buf
    /\ UNCHANGED <<input, origin>>
    /\ UNCHANGED repoVars

\* lines 34-65: one iteration of the loop, and the return that follows a break
ReadSection ==
    /\ hpc = "loop"
    /\ LET f == fill(input, pos, BlockLen)
           buf == f.buf
       IN IF ~f.ok THEN pos' = f.pos /\ Return(Corrupt)
          ELSE IF buf[1] = 72
               THEN /\ pos' = f.pos
                    /\ IF SubSeq(buf, 1, 4) = Hsum
                       THEN IF KnownSum(buf)
                            THEN Return(Ok)
                            ELSE Return(UnknownSum)
                       ELSE hpc' = "loop" /\ hres' = hres
          ELSE IF buf[1] = 81
               THEN LET x == QLen(buf[2])
                        g == fill(input, f.pos, QbufLen(x) - BlockLen)
                    IN IF x < 0 THEN pos' = f.pos /\ Return(BadQLength)
                       ELSE /\ pos' = g.pos
                            /\ IF ~g.ok THEN Return(Corrupt)
                               ELSE hpc' = "loop" /\ hres' = hres
          ELSE pos' = f.pos /\ Return(Unexpected)
    /\ UNCHANGED <<input, repo_name, origin>>
    /\ UNCHANGED repoVars

\* The checksum of the bytes that precede it.  The digest is not computed by
\* read_head; this stand-in changes whenever one byte of its input changes.
RECURSIVE SumBytes(_)
SumBytes(bytes) ==
    IF Len(bytes) = 0 THEN 0
    ELSE IF Len(bytes) = 1 THEN bytes[1]
    ELSE LET half == Len(bytes) \div 2
         IN (SumBytes(SubSeq(bytes, 1, half))
             + SumBytes(SubSeq(bytes, half + 1, Len(bytes)))) % 256

Digest(bytes) == [k \in 1..SumLen |-> (SumBytes(bytes) + k * Len(bytes)) % 256]

\* Header sections: an H section, a Q section of one block, and Q sections of
\* two blocks whose second block is text or looks like the HSUM section
MaxSections == 2

Sections == {HBlock, Q1Block, Q2Block \o PayloadText, Q2Block \o HsumSha256}

RECURSIVE Concat(_)
Concat(ss) == IF ss = << >> THEN << >> ELSE Head(ss) \o Concat(Tail(ss))

Bodies(hsum) ==
    {Magic \o RepoName \o Concat(ss) \o hsum : ss \in SeqsUpTo(Sections, MaxSections)}

\* well-formed headers: magic, name, sections, HSUM, checksum of what precedes
Headers == {b \o Digest(b) : b \in Bodies(HsumSha256)}

Flip(h, i) == [h EXCEPT ![i] = (@ + 1) % 256]

Origin(kind, at, h) == [kind |-> kind, at |-> at, hsum_end |-> Len(h) - SumLen]

\* the reader holds a well-formed header, one with one byte changed, one cut
\* short, or one whose HSUM section names another algorithm
InitHead ==
    /\ \/ \E h \in Headers : input = h /\ origin = Origin("whole", 0, h)
       \/ \E h \in Headers : \E i \in 1..Len(h) :
             input = Flip(h, i) /\ origin = Origin("flip", i, h)
       \/ \E h \in Headers : \E n \in 0..(Len(h) - 1) :
             input = SubSeq(h, 1, n) /\ origin = Origin("cut", n, h)
       \/ \E b \in Bodies(HsumOther) :
             input = b \o Digest(b) /\ origin = Origin("algo", 0, b \o Digest(b))
    /\ pos = 0
    /\ hpc = "magic"
    /\ repo_name = << >>
    /\ hres = ""
    /\ parts = [r \in Replicas |-> EmptyMap]
    /\ csf = [r \in Replicas |-> << >>]
    /\ alive = [r \in Replicas |-> TRUE]
    /\ checks = FALSE
    /\ divided = [r \in Replicas |-> {}]
    /\ synced = {}
    /\ last = NoCall

NextHead ==
    \/ ReadMagic
    \/ ReadName
    \/ ReadSection

SpecHead == InitHead /\ [][NextHead]_vars

\* read_head is sequential code that never waits: a step that can be taken is taken
SpecHeadFair == InitHead /\ [][NextHead]_vars /\ WF_vars(NextHead)

----------------------------------------------------------------------------
(* Properties of divide on one repository (SpecDivide) *)

DivideOk == last.op = "divide" /\ last.kind = "Ok"

\* an inclusive range [lo, hi] as a set of lengths is non-empty iff lo <= hi
NonEmptyRange(pi) == pi.min_len <= pi.max_len
Disjoint(p, q) == p.max_len < q.min_len \/ q.max_len < p.min_len

\* C1: after divide returns Ok([id1, id2]) on a partition of range [lo, hi],
\* the ranges of id1 and id2 are non-empty, do not overlap and cover [lo, hi].
C1_SubdivisionInvariant ==
    DivideOk =>
        LET old == last.pre[1]
            p1 == parts[last.rep][last.ids[1]]
            p2 == parts[last.rep][last.ids[2]]
        IN /\ NonEmptyRange(p1)
           /\ NonEmptyRange(p2)
           /\ Disjoint(p1, p2)
           /\ p1.min_len = old.min_len
           /\ p2.max_len = old.max_len
           /\ p1.max_len + 1 = p2.min_len

\* the element lengths classify is asked about
Keys == 0..(MaxLen + 1) \cup {U32_MAX}

\* C4: once init_first has run, whatever divide calls succeed afterwards, the
\* classifier table has a class of lower bound 0 and classify never returns None.
C4_CatchAll ==
    parts["a"] # EmptyMap =>
        /\ \E i \in 1..Len(csf["a"]) : csf["a"][i][1] = 0
        /\ \A len \in Keys : classify(csf["a"], len) # None

\* C7: divide on partition n with maximum assignable identifier m returns
\* NotSubdivisible when m < n + 2; when m >= n + 2 and the partition state is
\* not empty it gets past the identifier check and allocates two distinct
\* identifiers in n+1 .. m.
C7_IdentifierCheck ==
    (last.op = "divide" /\ last.pre # << >>) =>
        LET n == last.part
            m == last.pre[1].max_part_id
        IN /\ m < n + 2 => (last.kind = "NotSubdivisible" /\ last.ids = << >>)
           /\ (m >= n + 2 /\ ~last.empty) =>
                 /\ last.kind \notin {"NotSubdivisible", "missing info"}
                 /\ Len(last.ids) = 2
                 /\ last.ids[1] # last.ids[2]
                 /\ last.ids[1] \in (n + 1)..m
                 /\ last.ids[2] \in (n + 1)..m

C7_Witness ==
    /\ DivideOk
    /\ last.pre[1].max_part_id >= last.part + 2
    /\ Len(last.ids) = 2

\* C8: when divide succeeds on a partition of range [lo, hi], the split point is
\* the element of index floor(n/2) of the sorted sample, the first new partition
\* gets the range [lo, median - 1] and the second [median, hi].
C8_SplitPoint ==
    DivideOk =>
        LET old == last.pre[1]
            sample == Sample(last.lens)
            n == Len(sample)
            median == last.median[1]
            p1 == parts[last.rep][last.ids[1]]
            p2 == parts[last.rep][last.ids[2]]
        IN /\ n <= SampleMax
           /\ Cardinality({j \in 1..n : sample[j] < median}) <= n \div 2
           /\ Cardinality({j \in 1..n : sample[j] <= median}) > n \div 2
           /\ \E j \in 1..n : sample[j] = median
           /\ p1.min_len = old.min_len /\ p1.max_len = median - 1
           /\ p2.min_len = median /\ p2.max_len = old.max_len

----------------------------------------------------------------------------
(* Properties of read_buf on arbitrary buffers (SpecRead) *)

\* C2: a read_buf call changes the stored fields of an identifier only by
\* storing a record of strictly greater version; records whose version is not
\* greater than the stored one change nothing.
C2_ReconciliationMonotone ==
    [][last'.op = "read_buf" =>
          \A id \in DOMAIN parts["a"] :
              \/ parts'["a"][id] = parts["a"][id]
              \/ parts'["a"][id].ver > parts["a"][id].ver]_vars

C2_Witness ==
    /\ last.op = "read_buf"
    /\ last.kind = "Ok"
    /\ \E id \in last.stale : parts["a"][id].ver >= 1

----------------------------------------------------------------------------
(* Properties of two replicas (Spec) *)

\* C5: once divide has succeeded on partition P on a replica, classify on that
\* replica never returns P, whatever divide and read_buf calls follow.
C5_RetirementPermanent ==
    \A r \in Replicas : \A p \in divided[r] : \A len \in Keys :
        classify(csf[r], len) # p

\* a replica that retired P has since read the table of a replica where P is in use
C5_Witness ==
    \E r \in Replicas : \E p \in divided[r] :
        /\ r \in synced
        /\ p \in DOMAIN parts[Other(r)]
        /\ InUse(parts[Other(r)][p])

\* C6: when both replicas have applied read_buf to the other's write_buf output
\* after their divide calls, they hold identical Partition Info tables.
C6_Convergence ==
    synced = Replicas => parts["a"] = parts["b"]

----------------------------------------------------------------------------
(* Properties of classify (SpecClassify) *)

Bounds(classes) == {classes[i][1] : i \in 1..Len(classes)}

\* C9: classify(k) returns a partition whose lower bound equals k if there is
\* one, otherwise the partition with the largest lower bound below k, and None
\* exactly when k is below every lower bound.
C9_RoutingRule ==
    last.op = "classify" =>
        LET classes == csf["a"]
            k == last.key
            below == {b \in Bounds(classes) : b <= k}
        IN /\ (last.ret = None) <=> (below = {})
           /\ below # {} =>
                \E i \in 1..Len(classes) :
                    /\ classes[i][2] = last.ret
                    /\ classes[i][1] \in below
                    /\ \A b \in below : b <= classes[i][1]

\* a key that lies strictly between two lower bounds of a table of three classes or more
C9_Witness ==
    /\ last.op = "classify"
    /\ Len(csf["a"]) >= 3
    /\ last.key \notin Bounds(csf["a"])
    /\ \E lo, hi \in Bounds(csf["a"]) : lo < last.key /\ last.key < hi
    /\ last.ret # None

----------------------------------------------------------------------------
(* Properties of read_head (SpecHead) *)

HeadDone == hpc = "done"

\* C3: a header with one byte changed is rejected, and an unmodified
\* well-formed header is accepted.
C3_ChecksumIntegrity ==
    HeadDone =>
        /\ origin.kind = "flip" => hres # Ok
        /\ origin.kind = "whole" => hres = Ok

\* the trailing checksum of the input read so far matches the bytes before it
ChecksumMatches ==
    /\ Len(input) >= pos + SumLen
    /\ SubSeq(input, pos + 1, pos + SumLen) = Digest(SubSeq(input, 1, pos))

\* C10: read_head fails with the error of the case for an input that ends
\* before the HSUM section is complete, for a first block that is not the magic,
\* for an HSUM section naming another algorithm, and it does not return Ok when
\* the checksum does not match the preceding bytes.
C10_ReadFailures ==
    HeadDone =>
        /\ (origin.kind = "cut" /\ origin.at < origin.hsum_end) => hres = Corrupt
        /\ (Len(input) >= BlockLen /\ SubSeq(input, 1, BlockLen) # Magic) => hres = NotPippin
        /\ origin.kind = "algo" => hres = UnknownSum
        /\ hres = Ok => ChecksumMatches

\* C11: a header whose bytes end after the HSUM section and before the end of
\* the trailing checksum is rejected with the corruption error.
C11_TruncatedChecksum ==
    (HeadDone /\ origin.kind = "cut" /\ origin.at >= origin.hsum_end) => hres = Corrupt

----------------------------------------------------------------------------
(* Further properties of read_buf on arbitrary buffers (SpecRead) *)

ReadCall == last.op = "read_buf"

\* the buffer is shorter than 12 bytes, does not start with the tag, or its
\* length is not 12 + 28 * count
Malformed(head) ==
    \/ head.len < HeadLen
    \/ head.tag # Tag
    \/ head.len # HeadLen + RecLen * head.n_parts

\* C12: read_buf returns an error for every malformed buffer and applies none
\* of its records: the Partition Info table is as it was before the call.
C12_RejectMalformed ==
    [][(last'.op = "read_buf" /\ Malformed(last'.buf)) =>
          /\ last'.kind \in {"Insufficient data", "Invalid format identifier",
                             "Wrong data length"}
          /\ parts' = parts
          /\ csf' = csf]_vars

\* a buffer with the tag and a record count that does not match its length,
\* read by a repository that holds a partition
C12_Witness ==
    /\ ReadCall
    /\ last.buf.tag = Tag
    /\ last.buf.len >= HeadLen
    /\ last.buf.len > HeadLen + RecLen * last.buf.n_parts
    /\ last.kind = "Wrong data length"
    /\ parts["a"] # EmptyMap

----------------------------------------------------------------------------
(* Properties of one repository that divides and reads (SpecVer) *)

\* C13: over init_first, divide and read_buf calls on one replica the version
\* stored for an identifier never decreases, and a successful divide that
\* changes an existing Partition Info stores its version plus one.
C13_VersionMonotone ==
    [][\A id \in DOMAIN parts["a"] :
          /\ id \in DOMAIN parts'["a"]
          /\ parts'["a"][id].ver >= parts["a"][id].ver
          /\ (last'.op = "divide" /\ last'.kind = "Ok"
                /\ parts'["a"][id] # parts["a"][id])
             => parts'["a"][id].ver = parts["a"][id].ver + 1]_vars

----------------------------------------------------------------------------
(* Further properties of two replicas (Spec) *)

\* replica r, freshly constructed, applies read_buf to what the other replica writes
FreshRead(r) ==
    /\ parts[r] = EmptyMap
    /\ parts[Other(r)] # EmptyMap
    /\ r \in synced'

\* C14: read_buf on a freshly constructed repository, applied to the bytes
\* write_buf produces for a table, succeeds and yields the same Partition Info
\* table and the same classifier table, whatever the order of the records.
C14_RoundTrip ==
    [][\A r \in Replicas :
          FreshRead(r) =>
              /\ parts'[r] = parts[Other(r)]
              /\ csf'[r] = csf[Other(r)]]_vars

----------------------------------------------------------------------------
(* Further properties of divide on one repository (SpecDivide) *)

\* the identifiers a Partition Info reserves: its own and those it may assign
IdInterval(table, id) == id..table[id].max_part_id

\* C15: the identifier intervals [id, max_part_id] of the Partition Infos are
\* pairwise disjoint; after divide succeeds on a partition of interval [n, m]
\* the retired partition has [n, n], the two new identifiers are distinct and
\* greater than n, and the three intervals cover [n, m] exactly.
C15_IdentifierSpace ==
    LET table == parts["a"]
    IN /\ \A p, q \in DOMAIN table :
              p # q => IdInterval(table, p) \cap IdInterval(table, q) = {}
       /\ DivideOk =>
              LET n == last.part
                  m == last.pre[1].max_part_id
                  id1 == last.ids[1]
                  id2 == last.ids[2]
              IN /\ id1 # id2 /\ id1 > n /\ id2 > n
                 /\ IdInterval(table, n) = {n}
                 /\ IdInterval(table, id1) # {}
                 /\ IdInterval(table, id2) # {}
                 /\ IdInterval(table, n) \cup IdInterval(table, id1)
                        \cup IdInterval(table, id2) = n..m

\* a second successful divide, on a partition that an earlier divide created
C15_Witness ==
    /\ DivideOk
    /\ last.part > 1
    /\ Cardinality(DOMAIN parts["a"]) >= 5

----------------------------------------------------------------------------
(* Further properties of read_head (SpecHead) *)

\* C16: when the loop reads the first block of a Q section of length code x and
\* goes on, it has consumed the 16 * x bytes of the section, so that the next
\* block it interprets is the one that follows the section.
C16_QSectionLength ==
    [][(/\ hpc = "loop"
        /\ hpc' = "loop"
        /\ input[pos + 1] = 81
        /\ QLen(input[pos + 2]) >= 1)
       => pos' = pos + BlockLen * QLen(input[pos + 2])]_vars

----------------------------------------------------------------------------
(* Properties of the tables after read_buf (SpecRead) *)

\* the (min_len, identifier) pairs of the Partition Infos in use
InUseClasses(table) ==
    {<<table[id].min_len, id>> : id \in {p \in DOMAIN table : InUse(table[p])}}

Sorted0(classes) ==
    \A i \in 1..(Len(classes) - 1) : classes[i][1] <= classes[i + 1][1]

\* C17: after every operation the classifier table lists the (min_len,
\* identifier) of exactly the Partition Infos with max_len > min_len, each
\* once, sorted by min_len ascending.
C17_ClassifierView ==
    LET classes == csf["a"]
    IN /\ {classes[i] : i \in 1..Len(classes)} = InUseClasses(parts["a"])
       /\ Len(classes) = Cardinality(InUseClasses(parts["a"]))
       /\ Sorted0(classes)

----------------------------------------------------------------------------
(* Frame properties of divide (SpecDivide) *)

DivideErrors == {"NotSubdivisible", "missing info"}

\* C18: when divide returns an error (no element in the partition state, no
\* Partition Info for the partition, fewer than two unused identifiers) the
\* Partition Info table and the classifier table are as before the call.
C18_DivideErrorFrame ==
    [][(last'.op = "divide" /\ last'.kind \in DivideErrors) =>
          /\ parts' = parts
          /\ csf' = csf]_vars

\* divide refused for lack of identifiers on a repository that has divided before
C18_Witness ==
    /\ last.op = "divide"
    /\ last.kind = "NotSubdivisible"
    /\ ~last.empty
    /\ last.pre # << >>
    /\ Cardinality(DOMAIN parts["a"]) >= 3

----------------------------------------------------------------------------
(* Frame properties of read_buf (SpecRead) *)

\* C19: when read_buf returns an error, whichever record it found the error
\* in, the Partition Info table and the classifier table are as before the call.
C19_ReadErrorFrame ==
    [][(last'.op = "read_buf" /\ last'.kind # "Ok") =>
          /\ parts' = parts
          /\ csf' = csf]_vars

----------------------------------------------------------------------------
(* Arithmetic of divide (SpecDivide) *)

\* the call got past the identifier check of line 175 and computed a split point
PastIdentifierCheck == last.op = "divide" /\ last.median # << >>

\* C20: for every non-empty partition state on which the identifier check
\* passes, the median is at least 1, divide does not overflow, and median - 1 is
\* not below the lower bound of the partition.
C20_NoUnderflow ==
    PastIdentifierCheck =>
        /\ last.median[1] >= 1
        /\ last.kind # "panic"
        /\ last.median[1] - 1 >= last.pre[1].min_len

----------------------------------------------------------------------------
(* Termination of read_head (SpecHeadFair) *)

\* read_head has returned Ok: the last block consumed is the HSUM section
\* naming SHA-2 256, and the name returned is bytes 16..32 of the input
OkAfterHsum ==
    hres = Ok =>
        /\ pos >= 3 * BlockLen
        /\ SubSeq(input, pos - BlockLen + 1, pos) = HsumSha256
        /\ repo_name = SubSeq(input, BlockLen + 1, 2 * BlockLen)

\* C21: read_head returns on every finite input; each iteration of the loop
\* consumes one further 16-byte block or returns; Ok is returned only after an
\* HSUM section naming SHA-2 256, with bytes 16..32 of the input as the name.
C21_Terminates ==
    /\ [][hpc = "loop" => (pos' = pos + BlockLen \/ hpc' = "done")]_vars
    /\ []OkAfterHsum
    /\ <>HeadDone

\* Ok returned for a header that has sections between the name and HSUM
C21_Witness ==
    /\ HeadDone
    /\ hres = Ok
    /\ pos > 3 * BlockLen
    /\ origin.kind = "whole"

----------------------------------------------------------------------------
(* divide on a retired partition (SpecDivide) *)

\* C22: once divide has succeeded on partition P, every later divide call on P
\* on that replica returns NotSubdivisible and leaves the Partition Info table
\* and the classifier table as they are, whatever divide calls came in between.
C22_RetiredTerminal ==
    [][(last'.op = "divide" /\ last'.part \in divided["a"]) =>
          /\ last'.kind = "NotSubdivisible"
          /\ divided' = divided
          /\ parts' = parts
          /\ csf' = csf]_vars

\* divide refused on partition 1, which holds elements, after partition 1 and
\* then a partition made from it have been divided
C22_Witness ==
    /\ last.op = "divide"
    /\ last.part = 1
    /\ ~last.empty
    /\ last.kind = "NotSubdivisible"
    /\ 1 \in divided["a"]
    /\ Cardinality(divided["a"]) >= 2

====
